---- MODULE Spec2Model ----
(***************************************************************************)
(* A model of the scrabby move engine: Letter (src/src/letter.rs), Board,  *)
(* Position, Word, Direction (src/src/board.rs) and the move generator,    *)
(* validator and boundary-word scan (src/src/computer.rs).                 *)
(*                                                                         *)
(* Encodings.  Option<T>: None is <<>> and Some(x) is <<x>>.  A Letter is  *)
(* its repr(u8) discriminant (A = 65 .. Z = 90, Blank = 91).  A char is a  *)
(* one-character string and a &str a sequence of chars.  A usize index is  *)
(* a natural number; checked_add_signed gives None below zero, and unwrap  *)
(* of None is a panic.  A computation that can panic returns a record      *)
(* [panic |-> TRUE] or [panic |-> FALSE, val |-> v].                       *)
(***************************************************************************)
EXTENDS Integers, Sequences, FiniteSets, TLC

VARIABLES
    size,       \* Board.size
    inner,      \* Board.inner : index -> Option<Letter>
    moves,      \* Board.moves : the committed Words, in order
    word_list,  \* the lexicon handed to best_moves / verify_move
    gen,        \* the iterator best_moves returned (rack, sorted candidates, yielded Words)
    call,       \* the last stand-alone call of a public function, with its result
    panicked    \* a panic (unwrap of None, index out of bounds) has unwound the program

vars == <<size, inner, moves, word_list, gen, call, panicked>>

-----------------------------------------------------------------------------
(* Option and panic encodings *)

None == <<>>
Some(x) == <<x>>
is_none(o) == o = <<>>
is_some(o) == o # <<>>
unwrap(o) == o[1]

Panic == [panic |-> TRUE]
Ok(v) == [panic |-> FALSE, val |-> v]

\* The rest of a computation after a step that may panic: `let v = r; F(v)`
Bind(r, F(_)) == IF r.panic THEN Panic ELSE F(r.val)

-----------------------------------------------------------------------------
(* letter.rs *)

Upper == <<"A", "B", "C", "D", "E", "F", "G", "H", "I", "J", "K", "L", "M",
           "N", "O", "P", "Q", "R", "S", "T", "U", "V", "W", "X", "Y", "Z">>

LetterA == 65
Blank == 91

\* Letter::from_char: ' ' is Blank, an ASCII uppercase char is the letter with
\* that code (the inputs of this model are uppercase or ' ').
from_char(c) ==
    IF c = " " THEN Blank
    ELSE (LetterA - 1) + (CHOOSE k \in 1..Len(Upper) : Upper[k] = c)

\* Letter::to_char
to_char(l) == IF l = Blank THEN " " ELSE Upper[l - LetterA + 1]

RawScores == <<1, 3, 3, 2, 1, 4, 2, 4, 1, 8, 5, 1, 3,
               1, 1, 3, 10, 1, 1, 1, 1, 4, 4, 8, 4, 10, 0>>

\* Letter::raw_score
raw_score(l) == RawScores[l - LetterA + 1]

WordMultRows == <<
    <<4,1,1,1,1,1,1,3,1,1,1,1,1,3,1,1,1,1,1,1,4>>,
    <<1,2,1,1,1,1,1,1,2,1,1,1,2,1,1,1,1,1,1,2,1>>,
    <<1,1,2,1,1,1,1,1,1,2,1,2,1,1,1,1,1,1,2,1,1>>,
    <<1,1,1,3,1,1,1,1,1,1,3,1,1,1,1,1,1,3,1,1,1>>,
    <<1,1,1,1,2,1,1,1,1,1,1,1,1,1,1,1,2,1,1,1,1>>,
    <<1,1,1,1,1,2,1,1,1,1,1,1,1,1,1,2,1,1,1,1,1>>,
    <<1,1,1,1,1,1,2,1,1,1,1,1,1,1,2,1,1,1,1,1,1>>,
    <<3,1,1,1,1,1,1,2,1,1,1,1,1,2,1,1,1,1,1,1,3>>,
    <<1,2,1,1,1,1,1,1,1,1,1,1,1,1,1,1,1,1,1,2,1>>,
    <<1,1,2,1,1,1,1,1,1,1,1,1,1,1,1,1,1,1,2,1,1>>,
    <<1,1,1,3,1,1,1,1,1,1,2,1,1,1,1,1,1,3,1,1,1>>,
    <<1,1,2,1,1,1,1,1,1,1,1,1,1,1,1,1,1,1,2,1,1>>,
    <<1,2,1,1,1,1,1,1,1,1,1,1,1,1,1,1,1,1,1,2,1>>,
    <<3,1,1,1,1,1,1,2,1,1,1,1,1,2,1,1,1,1,1,1,3>>,
    <<1,1,1,1,1,1,2,1,1,1,1,1,1,1,2,1,1,1,1,1,1>>,
    <<1,1,1,1,1,2,1,1,1,1,1,1,1,1,1,2,1,1,1,1,1>>,
    <<1,1,1,1,2,1,1,1,1,1,1,1,1,1,1,1,2,1,1,1,1>>,
    <<1,1,1,3,1,1,1,1,1,1,3,1,1,1,1,1,1,3,1,1,1>>,
    <<1,1,2,1,1,1,1,1,1,2,1,2,1,1,1,1,1,1,2,1,1>>,
    <<1,2,1,1,1,1,1,1,2,1,1,1,2,1,1,1,1,1,1,2,1>>,
    <<4,1,1,1,1,1,1,3,1,1,1,1,1,3,1,1,1,1,1,1,4>> >>

LetterMultRows == <<
    <<1,1,1,2,1,1,1,1,1,1,2,1,1,1,1,1,1,2,1,1,1>>,
    <<1,1,1,1,3,1,1,1,1,1,1,1,1,1,1,1,3,1,1,1,1>>,
    <<1,1,1,1,1,4,1,1,1,1,1,1,1,1,1,4,1,1,1,1,1>>,
    <<2,1,1,1,1,1,2,1,1,1,1,1,1,1,2,1,1,1,1,1,2>>,
    <<1,3,1,1,1,1,1,1,3,1,1,1,3,1,1,1,1,1,1,3,1>>,
    <<1,1,4,1,1,1,1,1,1,2,1,2,1,1,1,1,1,1,4,1,1>>,
    <<1,1,1,2,1,1,1,1,1,1,2,1,1,1,1,1,1,2,1,1,1>>,
    <<1,1,1,1,1,1,1,1,1,1,1,1,1,1,1,1,1,1,1,1,1>>,
    <<1,1,1,1,3,1,1,1,3,1,1,1,3,1,1,1,3,1,1,1,1>>,
    <<1,1,1,1,1,2,1,1,1,2,1,2,1,1,1,2,1,1,1,1,1>>,
    <<2,1,1,1,1,1,2,1,1,1,1,1,1,1,2,1,1,1,1,1,2>>,
    <<1,1,1,1,1,2,1,1,1,2,1,2,1,1,1,2,1,1,1,1,1>>,
    <<1,1,1,1,3,1,1,1,3,1,1,1,3,1,1,1,3,1,1,1,1>>,
    <<1,1,1,1,1,1,1,1,1,1,1,1,1,1,1,1,1,1,1,1,1>>,
    <<1,1,1,2,1,1,1,1,1,1,2,1,1,1,1,1,1,2,1,1,1>>,
    <<1,1,4,1,1,1,1,1,1,2,1,2,1,1,1,1,1,1,4,1,1>>,
    <<1,3,1,1,1,1,1,1,3,1,1,1,3,1,1,1,1,1,1,3,1>>,
    <<2,1,1,1,1,1,2,1,1,1,1,1,1,1,2,1,1,1,1,1,2>>,
    <<1,1,1,1,1,4,1,1,1,1,1,1,1,1,1,4,1,1,1,1,1>>,
    <<1,1,1,1,3,1,1,1,1,1,1,1,1,1,1,1,3,1,1,1,1>>,
    <<1,1,1,2,1,1,1,1,1,1,2,1,1,1,1,1,1,2,1,1,1>> >>

\* The rows are flattened into one slice (whitespace filtered out), 21 per row.
TableWidth == Len(WordMultRows)
TableLen == TableWidth * TableWidth

\* WORD_MULT.get(index).cloned().unwrap_or(1)
WORD_MULT(index) ==
    IF index < TableLen
    THEN WordMultRows[(index \div TableWidth) + 1][(index % TableWidth) + 1]
    ELSE 1

\* LETTER_MULT.get(index).cloned().unwrap_or(1)
LETTER_MULT(index) ==
    IF index < TableLen
    THEN LetterMultRows[(index \div TableWidth) + 1][(index % TableWidth) + 1]
    ELSE 1

-----------------------------------------------------------------------------
(* board.rs: Direction, Position *)

Right == "Right"
Down == "Down"
Directions == {Down, Right}

\* Direction::opposite
opposite(direction) == IF direction = Right THEN Down ELSE Right

\* Direction::offset
offset(direction, board_size) == IF direction = Right THEN 1 ELSE board_size

\* usize::checked_add_signed: None when the sum leaves the usize range
checked_add_signed(index, amount) ==
    IF index + amount < 0 THEN None ELSE Some(index + amount)

\* Position::new
Position(board_size, row, column) ==
    [index |-> row * board_size + column, board_size |-> board_size]

\* Position::add_direction: the unwrap panics on None
Unwrapped(o) == IF is_none(o) THEN Panic ELSE Ok(unwrap(o))

add_direction(self, direction, amount) ==
    Bind(Unwrapped(checked_add_signed(self.index,
                                      offset(direction, self.board_size) * amount)),
         LAMBDA index : Ok([index |-> index, board_size |-> self.board_size]))

\* add_direction with an amount >= 0, which cannot panic
step(self, direction, amount) ==
    [index |-> self.index + offset(direction, self.board_size) * amount,
     board_size |-> self.board_size]

\* Position::try_add_direction: a panic, or Ok of an Option<Position>
try_add_direction(self, direction, amount) ==
    Bind(Unwrapped(checked_add_signed(self.index,
                                      offset(direction, self.board_size) * amount)),
         LAMBDA new_index :
             IF \/ new_index > self.board_size * self.board_size
                \/ /\ direction = Right
                   /\ (self.index \div self.board_size) # (new_index \div self.board_size)
             THEN Ok(None)
             ELSE Ok(Some([index |-> new_index, board_size |-> self.board_size])))

-----------------------------------------------------------------------------
(* board.rs: Word, Board *)

\* Word::new
Word(position, direction, word) ==
    [direction |-> direction, position |-> position, word |-> word]

\* The Board as one value, for the functions that take &Board
Board == [size |-> size, inner |-> inner, moves |-> moves]

\* Board::new
NewInner(n) == [i \in 0..(n * n - 1) |-> None]

\* Board::get: inner.get(index).cloned().flatten()
get(b, position) ==
    IF position.index \in DOMAIN b.inner THEN b.inner[position.index] ELSE None

\* A set that leaves an occupied square as it is
set_keeps_first(inn, position, letter) ==
    IF is_some(inn[position.index]) THEN inn
    ELSE [inn EXCEPT ![position.index] = letter]

\* Board::set: inner[index] = letter (the caller has checked the index)
set(inn, position, letter) == [inn EXCEPT ![position.index] = letter]

\* The loop of Board::make_move from char i on: set panics on an index past the
\* end of inner, leaving the squares written so far.
RECURSIVE WriteWord(_, _, _, _, _)
WriteWord(inn, position, word, direction, i) ==
    IF i > Len(word) THEN [inner |-> inn, panic |-> FALSE]
    ELSE IF position.index \notin DOMAIN inn THEN [inner |-> inn, panic |-> TRUE]
    ELSE WriteWord(set(inn, position, Some(from_char(word[i]))),
                   step(position, direction, 1), word, direction, i + 1)

-----------------------------------------------------------------------------
(* computer.rs: can_create_word *)

\* rack.iter().enumerate() finding the first slot equal to the letter; 0 if none
FirstSlot(rack, letter) ==
    IF \E k \in 1..Len(rack) : rack[k] = letter
    THEN CHOOSE k \in 1..Len(rack) :
            /\ rack[k] = letter
            /\ \A j \in 1..(k - 1) : rack[j] # letter
    ELSE 0

\* rack.iter().filter(|&&x| x == Letter::Blank).count()
CountBlanks(rack) == Cardinality({k \in 1..Len(rack) : rack[k] = Blank})

\* The loop with a blank that is never used up
RECURSIVE CanCreateLoopBlankKept(_, _, _, _)
CanCreateLoopBlankKept(rack, blank_count, word, i) ==
    IF i > Len(word) THEN TRUE
    ELSE LET k == FirstSlot(rack, from_char(word[i]))
         IN  IF k # 0
             THEN CanCreateLoopBlankKept([rack EXCEPT ![k] = Blank], blank_count,
                                         word, i + 1)
             ELSE IF blank_count > 0
             THEN CanCreateLoopBlankKept(rack, blank_count, word, i + 1)
             ELSE FALSE

\* The 'outer loop of can_create_word from char i on, over the local copy of the rack
RECURSIVE CanCreateLoop(_, _, _, _)
CanCreateLoop(rack, blank_count, word, i) ==
    IF i > Len(word) THEN TRUE
    ELSE LET k == FirstSlot(rack, from_char(word[i]))
         IN  IF k # 0
             THEN CanCreateLoop([rack EXCEPT ![k] = Blank], blank_count, word, i + 1)
             ELSE IF blank_count > 0
             THEN CanCreateLoop(rack, blank_count - 1, word, i + 1)
             ELSE FALSE

\* can_create_word
can_create_word(rack, word) == CanCreateLoop(rack, CountBlanks(rack), word, 1)

-----------------------------------------------------------------------------
(* computer.rs: get_move_positions *)

\* The 0-based indices of word whose letter is `letter`, ascending
Occurrences(word, letter) ==
    SelectSeq([k \in 1..Len(word) |-> k - 1],
              LAMBDA i : from_char(word[i + 1]) = letter)

\* The Words of one direction: one per occurrence, start = location stepped back
PositionsIn(location, word, direction, occ) ==
    [k \in 1..Len(occ) |-> add_direction(location, direction, -occ[k])]

\* A Vec of results as one result: a panic if any of them panicked
Collected(results) ==
    IF \E k \in 1..Len(results) : results[k].panic THEN Panic
    ELSE Ok([k \in 1..Len(results) |-> results[k].val])

\* get_move_positions: Down first, then Right; board.get(location).unwrap() and
\* add_direction panic on None
get_move_positions(b, location, word) ==
    Bind(Unwrapped(get(b, location)), LAMBDA letter :
    Bind(Collected(PositionsIn(location, word, Down, Occurrences(word, letter))),
         LAMBDA down :
    Bind(Collected(PositionsIn(location, word, Right, Occurrences(word, letter))),
         LAMBDA right :
        Ok([k \in 1..Len(down) |-> Word(down[k], Down, word)]
           \o [k \in 1..Len(right) |-> Word(right[k], Right, word)]))))

-----------------------------------------------------------------------------
(* computer.rs: get_with_word, find_boundary_word *)

\* get_with_word: the square as it reads with `word` laid over the board
get_with_word(b, word, position) ==
    LET diff == position.index - word.position.index
        off == offset(word.direction, b.size)
    IN  IF /\ position.index >= word.position.index
           /\ diff % off = 0
           /\ (diff \div off) < Len(word.word)
        THEN Some(from_char(word.word[(diff \div off) + 1]))
        ELSE get(b, position)

\* One of the two loops of find_boundary_word: walk from bound by amount (-1 or 1)
\* while the next square exists and reads a letter
RECURSIVE ScanBound(_, _, _, _, _)
ScanBound(b, word, bound, direction, amount) ==
    Bind(try_add_direction(bound, direction, amount), LAMBDA next :
        IF is_none(next) THEN Ok(bound)
        ELSE IF is_none(get_with_word(b, word, unwrap(next))) THEN Ok(bound)
        ELSE ScanBound(b, word, unwrap(next), direction, amount))

\* The while loop of find_boundary_word: the text from i to end_bound
RECURSIVE ReadRun(_, _, _, _, _)
ReadRun(b, word, i, end_bound, direction) ==
    IF i.index > end_bound.index THEN Ok(<<>>)
    ELSE Bind(Unwrapped(get_with_word(b, word, i)), LAMBDA here :
         Bind(ReadRun(b, word, step(i, direction, 1), end_bound, direction),
              LAMBDA rest : Ok(<<to_char(here)>> \o rest)))

\* find_boundary_word: the run through letter word_offset of word along direction,
\* as a Word at its first square (computer.rs returns its text, board.rs reads
\* its position and direction too); the text is empty when the run is one square
find_boundary_word(b, word, word_offset, direction) ==
    Bind(Ok(step(word.position, word.direction, word_offset)), LAMBDA start :
    Bind(ScanBound(b, word, start, direction, -1), LAMBDA start_bound :
    Bind(ScanBound(b, word, start, direction, 1), LAMBDA end_bound :
        IF start_bound = end_bound
        THEN Ok(Word(start_bound, direction, <<>>))
        ELSE Bind(ReadRun(b, word, start_bound, end_bound, direction),
                  LAMBDA text : Ok(Word(start_bound, direction, text))))))

-----------------------------------------------------------------------------
(* computer.rs: verify_move *)

\* word_list.contains(&new_word) || board.moves().iter().map(|mov| &mov.word)
\*     .find(|word| **word == new_word).is_some()
Known(b, words, text) ==
    \/ \E k \in 1..Len(words) : words[k] = text
    \/ \E k \in 1..Len(b.moves) : b.moves[k].word = text

\* The for loop of verify_move from letter i (0-based) on
RECURSIVE VerifyLoop(_, _, _, _)
VerifyLoop(b, board_move, words, i) ==
    IF i >= Len(board_move.word) THEN Ok(TRUE)
    ELSE Bind(Ok(get(b, step(board_move.position, board_move.direction, i))),
              LAMBDA test :
         IF is_some(test) /\ unwrap(test) # from_char(board_move.word[i + 1])
         THEN Ok(FALSE)
         ELSE Bind(find_boundary_word(b, board_move, i, opposite(board_move.direction)),
                   LAMBDA new_word :
              IF new_word.word # <<>> /\ ~Known(b, words, new_word.word)
              THEN Ok(FALSE)
              ELSE VerifyLoop(b, board_move, words, i + 1)))

\* A validator without the in-bounds check
verify_move_unbounded(b, board_move, words) ==
    Bind(find_boundary_word(b, board_move, 0, board_move.direction),
         LAMBDA new_word :
        IF new_word.word # <<>> /\ ~Known(b, words, new_word.word)
        THEN Ok(FALSE)
        ELSE VerifyLoop(b, board_move, words, 0))

\* verify_move: Ok(TRUE), Ok(FALSE) or a panic
verify_move(b, board_move, words) ==
    Bind(try_add_direction(board_move.position, board_move.direction,
                           Len(board_move.word)), LAMBDA end :
        IF is_none(end) THEN Ok(FALSE)
        ELSE Bind(find_boundary_word(b, board_move, 0, board_move.direction),
                  LAMBDA new_word :
             IF new_word.word # <<>> /\ ~Known(b, words, new_word.word)
             THEN Ok(FALSE)
             ELSE VerifyLoop(b, board_move, words, 0)))

-----------------------------------------------------------------------------
(* board.rs: Word::get_score *)

\* The for loop of get_score from letter i (0-based) on, with the running sum,
\* post_sum and word_mul; the secondary pass boundary_word.get_score(board,
\* Some(word_offset)) is the same loop started afresh on the boundary word
\* The multipliers of letter i: read when the call is primary or i is the
\* secondary common letter, else 1
Premium(table_value, secondary, i) ==
    IF is_none(secondary) \/ (is_some(secondary) /\ i = unwrap(secondary))
    THEN table_value ELSE 1

RECURSIVE ScoreLoop(_, _, _, _, _, _, _)
\* The rest of one iteration once the cross word's score (0 if none) is known
ScoreStep(self, b, secondary, i, sum, post_sum, word_mul, location, cross) ==
    ScoreLoop(self, b, secondary, i + 1,
              sum + raw_score(from_char(self.word[i + 1]))
                        * Premium(LETTER_MULT(location.index), secondary, i),
              post_sum + cross,
              word_mul * Premium(WORD_MULT(location.index), secondary, i))

ScoreLoop(self, b, secondary, i, sum, post_sum, word_mul) ==
    IF i >= Len(self.word) THEN Ok(sum * word_mul + post_sum)
    ELSE Bind(Ok(step(self.position, self.direction, i)), LAMBDA location :
         IF is_none(secondary) /\ is_none(get(b, location))
         THEN Bind(find_boundary_word(b, self, i, opposite(self.direction)),
                   LAMBDA boundary_word :
              Bind(ScoreLoop(boundary_word, b,
                             Some((location.index - boundary_word.position.index)
                                      \div offset(boundary_word.direction, b.size)),
                             0, 0, 0, 1),
                   LAMBDA cross :
                  ScoreStep(self, b, secondary, i, sum, post_sum, word_mul,
                            location, cross)))
         ELSE ScoreStep(self, b, secondary, i, sum, post_sum, word_mul, location, 0))

\* Word::get_score(&self, board, secondary_common_letter)
get_score(self, b, secondary) == ScoreLoop(self, b, secondary, 0, 0, 0, 1)

-----------------------------------------------------------------------------
(* computer.rs: best_moves *)

\* x.get_score(board) for every Word of get_move_positions, as (score, Word) pairs
ScoredPositions(b, location, word) ==
    Bind(get_move_positions(b, location, word), LAMBDA positions :
    Bind(Collected([k \in 1..Len(positions) |-> get_score(positions[k], b, None)]),
         LAMBDA scores :
        Ok([k \in 1..Len(positions) |-> <<scores[k], positions[k]>>])))

\* for word in words { best.extend(..) } for one anchor, from lexicon entry k on
RECURSIVE ExtendWords(_, _, _, _, _, _)
ExtendWords(b, rack, location, words, k, best) ==
    IF k > Len(words) THEN Ok(best)
    ELSE IF ~can_create_word(rack, words[k])
    THEN ExtendWords(b, rack, location, words, k + 1, best)
    ELSE Bind(ScoredPositions(b, location, words[k]), LAMBDA more :
             ExtendWords(b, rack, location, words, k + 1, best \o more))

\* for (location, letter) in board.enumerate_letters(), from index i on: the anchor's
\* letter is pushed on the rack for its words and popped again
RECURSIVE ExtendAnchors(_, _, _, _, _)
ExtendAnchors(b, rack, words, i, best) ==
    IF i \notin DOMAIN b.inner THEN Ok(best)
    ELSE IF is_none(b.inner[i]) THEN ExtendAnchors(b, rack, words, i + 1, best)
    ELSE Bind(ExtendWords(b, Append(rack, unwrap(b.inner[i])),
                          [index |-> i, board_size |-> b.size], words, 1, best),
              LAMBDA more : ExtendAnchors(b, rack, words, i + 1, more))

Reverse(v) == [k \in 1..Len(v) |-> v[Len(v) + 1 - k]]

\* v with x put after the last element whose key is not above x's
InsertByKey(v, x) ==
    LET n == Cardinality({k \in 1..Len(v) : v[k][1] <= x[1]})
    IN  SubSeq(v, 1, n) \o <<x>> \o SubSeq(v, n + 1, Len(v))

RECURSIVE SortFrom(_, _, _)
SortFrom(v, k, sorted) ==
    IF k > Len(v) THEN sorted ELSE SortFrom(v, k + 1, InsertByKey(sorted, v[k]))

\* The candidates left in the order they were generated
unsorted(v) == {v}

\* best.sort_unstable_by_key(|x| x.0): ascending by score; the order of equal
\* scores is not specified, and the model takes the encounter order and its reverse
sort_unstable_by_key(v) == {SortFrom(v, 1, <<>>), SortFrom(Reverse(v), 1, <<>>)}

\* The eager part of best_moves: the sorted Vec the returned iterator owns
SortedCandidates(b, rack, words) ==
    Bind(ExtendAnchors(b, rack, words, 0, <<>>),
         LAMBDA best : Ok(sort_unstable_by_key(best)))

\* One next() of best.into_iter().rev().filter(verify_move).map(|m| m.1): candidates
\* are taken from the back until one verifies
RECURSIVE Pull(_, _, _)
\* The last candidate m of best with the validator's answer for it
PullLast(b, best, words, legal) ==
    IF legal.panic
    THEN [panic |-> TRUE, best |-> SubSeq(best, 1, Len(best) - 1), item |-> None]
    ELSE IF legal.val
    THEN [panic |-> FALSE, best |-> SubSeq(best, 1, Len(best) - 1),
          item |-> Some(best[Len(best)][2])]
    ELSE Pull(b, SubSeq(best, 1, Len(best) - 1), words)

Pull(b, best, words) ==
    IF best = <<>> THEN [panic |-> FALSE, best |-> <<>>, item |-> None]
    ELSE PullLast(b, best, words, verify_move(b, best[Len(best)][2], words))

-----------------------------------------------------------------------------
(* Bounds and inputs *)

BoardSize == 5      \* Board::new(BoardSize) in Spec and SpecCalls
MaxMoves == 2       \* make_move calls per board
MaxRackLen == 3     \* SpecRack: tiles on a rack
MaxWordLen == 3     \* SpecRack: letters of a word
MaxPosSize == 4     \* SpecPos: board sizes 1..MaxPosSize
MaxAmount == 5      \* SpecPos: amounts -MaxAmount..MaxAmount
DEFAULT_SS_BOARD_SIZE == 21

AB == <<"A", "B">>
BA == <<"B", "A">>
ABA == <<"A", "B", "A">>

\* (row, column, word, direction) of the make_move calls explored: an interior
\* word, one two rows below it, a conflicting one on the same squares, a crossing
\* one, a parallel one directly below, one in the top row, one ending in the last
\* column, one whose second letter falls off the grid
Moves ==
    { <<1, 1, AB, Right>>, <<3, 1, AB, Right>>, <<1, 1, BA, Right>>,
      <<1, 1, AB, Down>>,  <<2, 1, AB, Right>>, <<0, 1, AB, Right>>,
      <<1, BoardSize - 2, AB, Right>>, <<BoardSize - 1, 2, AB, Down>> }

Lexicons == { <<AB, ABA>>, <<BA, AB>> }
Racks == { <<from_char("B")>>, <<from_char("A"), Blank>>,
           <<from_char("A"), from_char("B")>> }
CallWords == { AB, BA, ABA }

\* Every position of a board of size n
Positions(n) == { [index |-> i, board_size |-> n] : i \in 0..(n * n - 1) }

\* All sequences over S of length at most n
RECURSIVE SeqsUpTo(_, _)
SeqsUpTo(S, n) ==
    IF n = 0 THEN { <<>> }
    ELSE LET shorter == SeqsUpTo(S, n - 1)
         IN  shorter \cup { Append(v, x) : v \in shorter, x \in S }

-----------------------------------------------------------------------------
(* State machine *)

NoCall == [op |-> "none"]
Idle == [rack |-> <<>>, best |-> <<>>, active |-> FALSE, yielded |-> <<>>]

\* Board::new(n), with the lexicon the caller holds
InitBoard(n, lexicons) ==
    /\ size = n
    /\ inner = NewInner(n)
    /\ moves = <<>>
    /\ word_list \in lexicons
    /\ gen = Idle
    /\ call = NoCall
    /\ panicked = FALSE

\* Nothing borrows the board and no call is waiting to be resumed
Free == ~panicked /\ ~gen.active /\ call.op = "none"

\* The board after the loop of make_move: the Word is pushed unless set panicked
Written(written, board_move) ==
    /\ inner' = written.inner
    /\ panicked' = written.panic
    /\ moves' = IF written.panic THEN moves ELSE Append(moves, board_move)

\* Board::make_move(position, word, direction)
make_move(position, word, direction) ==
    /\ Free
    /\ Len(moves) < MaxMoves
    /\ Written(WriteWord(inner, position, word, direction, 1),
               Word(position, direction, word))
    /\ UNCHANGED <<size, word_list, gen, call>>

\* The iterator best_moves returns over one of the sorted orders, or its panic
Returned(letters, sorted) ==
    IF sorted.panic
    THEN panicked' = TRUE /\ gen' = gen
    ELSE /\ panicked' = FALSE
         /\ \E best \in sorted.val :
                gen' = [rack |-> letters, best |-> best,
                        active |-> TRUE, yielded |-> <<>>]

\* let it = best_moves(&board, letters, word_list): the candidates are generated,
\* scored and sorted before the iterator is returned
best_moves(letters) ==
    /\ Free
    /\ Returned(letters, SortedCandidates(Board, letters, word_list))
    /\ UNCHANGED <<size, inner, moves, word_list, call>>

\* The iterator after one next(): the Word it gave, if any, joins yielded
Pulled(pulled) ==
    /\ panicked' = pulled.panic
    /\ gen' = [gen EXCEPT !.best = pulled.best,
                          !.yielded = IF is_some(pulled.item)
                                      THEN Append(@, unwrap(pulled.item))
                                      ELSE @]

\* it.next() while candidates are left
iterator_next ==
    /\ ~panicked
    /\ gen.active
    /\ gen.best # <<>>
    /\ Pulled(Pull(Board, gen.best, word_list))
    /\ UNCHANGED <<size, inner, moves, word_list, call>>

\* drop(it): the borrow of the board ends
iterator_drop ==
    /\ ~panicked
    /\ gen.active
    /\ gen' = Idle
    /\ UNCHANGED <<size, inner, moves, word_list, call, panicked>>

\* The caller goes on after a stand-alone call
resume ==
    /\ ~panicked
    /\ call.op # "none"
    /\ call' = NoCall
    /\ UNCHANGED <<size, inner, moves, word_list, gen, panicked>>

\* A stand-alone call recorded with its result; a panic unwinds the program
Called(record, result) ==
    /\ Free
    /\ call' = [record EXCEPT !.result = result]
    /\ panicked' = result.panic
    /\ UNCHANGED <<size, inner, moves, word_list, gen>>

\* computer::verify_move(&board, &board_move, word_list)
verify_move_call(board_move) ==
    Called([word |-> board_move, op |-> "verify_move", result |-> Panic],
           verify_move(Board, board_move, word_list))

\* computer::get_move_positions(&board, location, word)
get_move_positions_call(location, word) ==
    Called([word |-> word, location |-> location, op |-> "get_move_positions",
            result |-> Panic],
           get_move_positions(Board, location, word))

\* word.get_score(&board, None)
get_score_call(word) ==
    Called([word |-> word, op |-> "get_score", result |-> Panic],
           get_score(word, Board, None))

\* position.try_add_direction(direction, amount)
try_add_direction_call(position, direction, amount) ==
    Called([direction |-> direction, amount |-> amount, position |-> position,
            op |-> "try_add_direction", result |-> Panic],
           try_add_direction(position, direction, amount))

\* computer::can_create_word(&rack, word): the function works on its own copy of
\* the rack, and rack_after is the caller's slice when it returns
can_create_word_call(rack, word) ==
    Called([word |-> word, rack |-> rack, op |-> "can_create_word",
            result |-> Panic, rack_after |-> rack],
           Ok(can_create_word(rack, word)))

MakeSomeMove ==
    \E m \in Moves : make_move(Position(size, m[1], m[2]), m[3], m[4])

\* The move generator on boards built by make_move
Init == InitBoard(BoardSize, Lexicons)
Next ==
    \/ MakeSomeMove
    \/ \E letters \in Racks : best_moves(letters)
    \/ iterator_next
    \/ iterator_drop
Spec == Init /\ [][Next]_vars

\* The validator and the placement constructor called on boards built by make_move
NextCalls ==
    \/ MakeSomeMove
    \/ \E p \in Positions(size), d \in Directions, w \in CallWords :
           verify_move_call(Word(p, d, w))
    \/ \E p \in Positions(size), w \in CallWords : get_move_positions_call(p, w)
    \/ resume
SpecCalls == Init /\ [][NextCalls]_vars

\* The scorer on the 21 x 21 board of the tests: RUST and RADICAL crossing at
\* (11, 11), and the words scored from the squares around them
RUST == <<"R", "U", "S", "T">>
RADICAL == <<"R", "A", "D", "I", "C", "A", "L">>
TREASURE == <<"T", "R", "E", "A", "S", "U", "R", "E">>
ScoreMoves == { <<11, 11, RUST, Right>>, <<11, 11, RADICAL, Down>> }
ScoreWords == { RUST, TREASURE }
ScorePositions ==
    { Position(DEFAULT_SS_BOARD_SIZE, r, c) : r \in 10..16, c \in 8..11 }
InitScore == InitBoard(DEFAULT_SS_BOARD_SIZE, { <<RUST, RADICAL, TREASURE>> })
NextScore ==
    \/ \E m \in ScoreMoves : make_move(Position(size, m[1], m[2]), m[3], m[4])
    \/ \E p \in ScorePositions, d \in Directions, w \in ScoreWords :
           get_score_call(Word(p, d, w))
    \/ resume
SpecScore == InitScore /\ [][NextScore]_vars

\* can_create_word on every rack and word within the bounds
RackLetters == { from_char("A"), from_char("B"), Blank }
WordChars == { "A", "B" }
InitRack == InitBoard(1, { <<>> })
NextRack ==
    \/ \E rack \in SeqsUpTo(RackLetters, MaxRackLen),
          word \in SeqsUpTo(WordChars, MaxWordLen) : can_create_word_call(rack, word)
    \/ resume
SpecRack == InitRack /\ [][NextRack]_vars

\* try_add_direction on every position of every board size within the bounds
InitPos == \E n \in 1..MaxPosSize : InitBoard(n, { <<>> })
NextPos ==
    \/ \E p \in Positions(size), d \in Directions, k \in (-MaxAmount)..MaxAmount :
           try_add_direction_call(p, d, k)
    \/ resume
SpecPos == InitPos /\ [][NextPos]_vars

-----------------------------------------------------------------------------
(* Geometry of the claims, stated on rows and columns *)

\* The indices a Word covers, letter by letter
SquareOf(w, i) == w.position.index + i * offset(w.direction, w.position.board_size)
Covered(w) == { SquareOf(w, i) : i \in 0..(Len(w.word) - 1) }

\* The letter a Word puts on a square it covers
LetterOn(w, idx) ==
    from_char(w.word[((idx - w.position.index)
                          \div offset(w.direction, w.position.board_size)) + 1])

Occupied == { idx \in DOMAIN inner : is_some(inner[idx]) }

\* The Word lies on the grid: every index is in range and a Right word keeps its row
OnBoard(w) ==
    \A idx \in Covered(w) :
        /\ idx \in 0..(size * size - 1)
        /\ w.direction = Right => (idx \div size) = (w.position.index \div size)

-----------------------------------------------------------------------------
(* C10: the board and its history *)

\* The committed Words covering a square, by their place in the history
Covering(idx) == { k \in 1..Len(moves) : idx \in Covered(moves[k]) }

\* What the history says a square holds: the letter of the last Word covering it
LatestLetter(idx) ==
    IF Covering(idx) = {} THEN None
    ELSE Some(LetterOn(moves[CHOOSE k \in Covering(idx) :
                                 \A j \in Covering(idx) : j <= k], idx))

\* C10 as stated: after any make_move calls with words on the board, every
\* committed Word's squares hold that Word's letters
C10_EveryWordReadsBack ==
    ~panicked =>
        \A k \in 1..Len(moves) : \A idx \in Covered(moves[k]) :
            inner[idx] = Some(LetterOn(moves[k], idx))

\* One make_move step: the history grows at its end and no square is emptied
C10_Grows ==
    /\ Len(moves') >= Len(moves)
    /\ SubSeq(moves', 1, Len(moves)) = moves
    /\ \A idx \in DOMAIN inner : is_some(inner[idx]) => is_some(inner'[idx])

\* C10 amended: make_move overwrites without checking, so every square holds the
\* letter of the last committed Word covering it (a Word reads back unless a later
\* Word put another letter on one of its squares); the occupied squares are
\* exactly the squares the committed Words cover; the history only grows and no
\* occupied square becomes empty
C10_BoardHoldsLatestWords ==
    /\ [](~panicked =>
            /\ \A idx \in DOMAIN inner : inner[idx] = LatestLetter(idx)
            /\ Occupied = UNION { Covered(moves[k]) : k \in 1..Len(moves) })
    /\ [][C10_Grows]_vars

\* Two committed Words sharing a square
C10_Witness ==
    /\ ~panicked
    /\ Len(moves) = 2
    /\ Covered(moves[1]) \cap Covered(moves[2]) # {}

-----------------------------------------------------------------------------
(* C4: can_create_word *)

Count(v, x) == Cardinality({ k \in 1..Len(v) : v[k] = x })

\* The letters of word the rack lacks, counted with multiplicity
RECURSIVE Deficit(_, _, _)
Deficit(rack, word, letter) ==
    IF letter >= Blank THEN 0
    ELSE (LET need == Count(word, to_char(letter)) - Count(rack, letter)
          IN  IF need > 0 THEN need ELSE 0)
         + Deficit(rack, word, letter + 1)

Coverable(rack, word) == Deficit(rack, word, LetterA) <= Count(rack, Blank)

\* C4: can_create_word(R, W) is true exactly when the letters W needs beyond
\* those of R number at most the blanks of R, and the caller's rack is unchanged
C4_CanCreateIffCoverable ==
    call.op = "can_create_word" =>
        /\ call.result = Ok(Coverable(call.rack, call.word))
        /\ call.rack_after = call.rack

\* A word made with a blank standing in for a letter the rack lacks
C4_Witness ==
    /\ call.op = "can_create_word"
    /\ call.result = Ok(TRUE)
    /\ Deficit(call.rack, call.word, LetterA) > 0

-----------------------------------------------------------------------------
(* C5: try_add_direction *)

\* C5 as stated: None when the target index is below 0 or at least n*n, or the
\* step is Right and leaves the row; else the position with the target index
C5_OutOfBoundsIsNone ==
    call.op = "try_add_direction" =>
        LET n == call.position.board_size
            target == call.position.index + call.amount * offset(call.direction, n)
        IN  IF \/ target < 0
               \/ target >= n * n
               \/ /\ call.direction = Right
                  /\ (target \div n) # (call.position.index \div n)
            THEN call.result = Ok(None)
            ELSE call.result = Ok(Some([index |-> target, board_size |-> n]))

-----------------------------------------------------------------------------
(* C1, C2, C3: the sequence best_moves yields *)

\* C1: every Word the iterator has yielded lies on the board and agrees with
\* every tile already on a square it covers
C1_YieldedOnBoardNoConflict ==
    \A k \in 1..Len(gen.yielded) :
        /\ OnBoard(gen.yielded[k])
        /\ \A idx \in Covered(gen.yielded[k]) \cap Occupied :
               inner[idx] = Some(LetterOn(gen.yielded[k], idx))

\* A yielded Word that crosses a tile of the board and adds a new one
C1_Witness ==
    \E k \in 1..Len(gen.yielded) :
        /\ Covered(gen.yielded[k]) \cap Occupied # {}
        /\ Covered(gen.yielded[k]) \ Occupied # {}

\* The chars of a Word that fall on empty squares, in order
NewChars(w) ==
    SelectSeq([i \in 1..Len(w.word) |-> i - 1],
              LAMBDA i : SquareOf(w, i) \notin Occupied)

NewLetters(w) == [k \in 1..Len(NewChars(w)) |-> w.word[NewChars(w)[k] + 1]]

\* A placement C2 speaks of: a lexicon word the validator accepts, crossing a tile,
\* whose new letters the rack can supply with blanks as wildcards (here only the
\* placements that lay at least one new tile)
C2_Placement(w, rack) ==
    /\ verify_move(Board, w, word_list) = Ok(TRUE)
    /\ Covered(w) \cap Occupied # {}
    /\ Covered(w) \ Occupied # {}
    /\ Coverable(rack, NewLetters(w))

\* C2 as stated: once the iterator is exhausted, every such placement has been
\* yielded
C2_EveryPlacementYielded ==
    (gen.active /\ gen.best = <<>> /\ ~panicked) =>
        \A p \in Positions(size), d \in Directions, k \in 1..Len(word_list) :
            C2_Placement(Word(p, d, word_list[k]), gen.rack) =>
                \E j \in 1..Len(gen.yielded) : gen.yielded[j] = Word(p, d, word_list[k])

\* C3: the yielded Words are in non-increasing order of their score on the board
C3_YieldedNonIncreasing ==
    \A k \in 1..(Len(gen.yielded) - 1) :
        get_score(gen.yielded[k], Board, None).val
            >= get_score(gen.yielded[k + 1], Board, None).val

\* Two Words yielded one after the other, the later with the smaller score
C3_Witness ==
    \E k \in 1..(Len(gen.yielded) - 1) :
        get_score(gen.yielded[k], Board, None).val
            > get_score(gen.yielded[k + 1], Board, None).val

-----------------------------------------------------------------------------
(* C6: perpendicular runs, read off the grid by rows and columns *)

\* A square as it reads with w laid over the board
Overlay(w, idx) ==
    IF idx \in Covered(w) THEN Some(LetterOn(w, idx)) ELSE inner[idx]

\* The squares of the row (Right) or column (Down) through idx, first to last
Line(idx, direction) ==
    IF direction = Right
    THEN [k \in 1..size |-> (idx \div size) * size + (k - 1)]
    ELSE [k \in 1..size |-> (k - 1) * size + (idx % size)]

PlaceInLine(idx, direction) ==
    IF direction = Right THEN (idx % size) + 1 ELSE (idx \div size) + 1

\* The ends, within the line, of the run of letters through idx
RunFirst(w, idx, direction) ==
    CHOOSE a \in 1..PlaceInLine(idx, direction) :
        /\ \A j \in a..PlaceInLine(idx, direction) :
               is_some(Overlay(w, Line(idx, direction)[j]))
        /\ a = 1 \/ is_none(Overlay(w, Line(idx, direction)[a - 1]))

RunLast(w, idx, direction) ==
    CHOOSE z \in PlaceInLine(idx, direction)..size :
        /\ \A j \in PlaceInLine(idx, direction)..z :
               is_some(Overlay(w, Line(idx, direction)[j]))
        /\ z = size \/ is_none(Overlay(w, Line(idx, direction)[z + 1]))

RunText(w, idx, direction) ==
    [j \in 1..(RunLast(w, idx, direction) - RunFirst(w, idx, direction) + 1) |->
        to_char(unwrap(Overlay(w, Line(idx, direction)[RunFirst(w, idx, direction) + j - 1])))]

\* Some letter of w lies in a perpendicular run of more than one letter whose text
\* is neither in the lexicon nor the text of a committed move
BadCrossRun(w) ==
    \E idx \in Covered(w) :
        /\ RunLast(w, idx, opposite(w.direction)) > RunFirst(w, idx, opposite(w.direction))
        /\ ~Known(Board, word_list, RunText(w, idx, opposite(w.direction)))

\* C6 as stated (for candidates on the grid, where rows and columns are defined):
\* verify_move returns false for every candidate with such a run
C6_BadCrossRunRejected ==
    (call.op = "verify_move" /\ OnBoard(call.word) /\ BadCrossRun(call.word)) =>
        call.result = Ok(FALSE)

\* What holds of verify_move for these candidates in every case: it never accepts
\* one (it returns false, or the boundary scan panics at the top of the grid)
C6_BadCrossRunNeverAccepted ==
    (call.op = "verify_move" /\ OnBoard(call.word) /\ BadCrossRun(call.word)) =>
        call.result # Ok(TRUE)

-----------------------------------------------------------------------------
(* C7: get_move_positions *)

\* C7 as stated: for an occupied anchor the call returns two Words per occurrence
\* of the anchor's letter, one Down and one Right, each starting where stepping
\* forward by the occurrence index reaches the anchor
C7_TwoWordsPerOccurrence ==
    (call.op = "get_move_positions" /\ call.location.index \in Occupied) =>
        LET occ == { i \in 0..(Len(call.word) - 1) :
                        Some(from_char(call.word[i + 1])) = inner[call.location.index] }
        IN  /\ ~call.result.panic
            /\ Len(call.result.val) = 2 * Cardinality(occ)
            /\ \A i \in occ, d \in Directions :
                   \E k \in 1..Len(call.result.val) :
                       /\ call.result.val[k].direction = d
                       /\ call.result.val[k].word = call.word
                       /\ SquareOf(call.result.val[k], i) = call.location.index

-----------------------------------------------------------------------------
(* C8, C9: get_score *)

\* The 0-based letters of w on squares that are empty on the board
NewPlaces(w) == { i \in 0..(Len(w.word) - 1) : is_none(get(Board, step(w.position, w.direction, i))) }

RECURSIVE SumOver(_, _, _)
SumOver(F(_), i, n) == IF i >= n THEN 0 ELSE F(i) + SumOver(F, i + 1, n)

RECURSIVE ProductOver(_, _, _)
ProductOver(F(_), i, n) == IF i >= n THEN 1 ELSE F(i) * ProductOver(F, i + 1, n)

\* post_sum: the cross words of the newly placed letters, each scored with its
\* shared letter as the secondary index
CrossScore(w, i) ==
    IF i \notin NewPlaces(w) THEN 0
    ELSE LET boundary_word == find_boundary_word(Board, w, i, opposite(w.direction)).val
         IN  get_score(boundary_word, Board,
                       Some((SquareOf(w, i) - boundary_word.position.index)
                                \div offset(boundary_word.direction, size))).val

\* The Word puts on every occupied square it covers the letter that is there
AgreesWithBoard(w) ==
    \A idx \in Covered(w) \cap Occupied : inner[idx] = Some(LetterOn(w, idx))

\* C8 as stated (for a Word that can be laid on the board): in a primary call the
\* letter and word premiums of a square count only if the square is empty on the
\* board; an occupied square gives its letter's face value and no word multiplier
C8_PremiumOnlyOnEmptySquares ==
    (/\ call.op = "get_score" /\ ~call.result.panic
     /\ OnBoard(call.word) /\ AgreesWithBoard(call.word)) =>
        LET w == call.word
            letters == SumOver(LAMBDA i : raw_score(from_char(w.word[i + 1]))
                                   * (IF i \in NewPlaces(w)
                                      THEN LETTER_MULT(SquareOf(w, i)) ELSE 1),
                               0, Len(w.word))
            word_mul == ProductOver(LAMBDA i : IF i \in NewPlaces(w)
                                        THEN WORD_MULT(SquareOf(w, i)) ELSE 1,
                                    0, Len(w.word))
            post_sum == SumOver(LAMBDA i : CrossScore(w, i), 0, Len(w.word))
        IN  call.result.val = letters * word_mul + post_sum

\* The score as get_score computes it from letters, multipliers and cross words
ScoreAsComputed(w) ==
    SumOver(LAMBDA i : raw_score(from_char(w.word[i + 1])) * LETTER_MULT(SquareOf(w, i)),
            0, Len(w.word))
        * ProductOver(LAMBDA i : WORD_MULT(SquareOf(w, i)), 0, Len(w.word))
        + SumOver(LAMBDA i : CrossScore(w, i), 0, Len(w.word))

\* C9 as stated: a primary call on a word of length 8 returns that score plus the
\* bonus 50, added once after the multiplication; any other length gets no bonus
C9_BonusForLengthEight ==
    (call.op = "get_score" /\ ~call.result.panic /\ OnBoard(call.word)) =>
        call.result.val = ScoreAsComputed(call.word)
                              + (IF Len(call.word.word) = 8 THEN 50 ELSE 0)

\* What get_score returns: the computed score, whatever the length
C9_NoBonusInScore ==
    (call.op = "get_score" /\ ~call.result.panic /\ OnBoard(call.word)) =>
        call.result.val = ScoreAsComputed(call.word)

-----------------------------------------------------------------------------
(* C11: best_moves and the validator always finish with a result *)

\* C11 as stated: no step of a best_moves run, neither the call that collects and
\* sorts the candidates nor a pull from the iterator (which runs verify_move on
\* the candidates it passes over), ends in a panic, whatever the board, the rack
\* and the lexicon are
C11_RunsNeverAbort ==
    [][((\E letters \in Racks : best_moves(letters)) \/ iterator_next)
           => ~panicked']_vars

-----------------------------------------------------------------------------
(* C12: every yielded Word lays a tile *)

\* C12 as stated: every Word the iterator has yielded covers at least one square
\* that is empty on the board, so a Word lying only on occupied squares (a
\* committed word at its own position) is never yielded
C12_YieldedPlacesNewTile ==
    \A k \in 1..Len(gen.yielded) : Covered(gen.yielded[k]) \ Occupied # {}

====
